---- MODULE Spec2Model ----
(***************************************************************************)
(* Caribou: SQLite schema migrations (src/caribou/migrate.py).             *)
(*                                                                         *)
(* The model follows the database file through calls of the public         *)
(* functions upgrade(db_url, dir, version), downgrade(db_url, dir,         *)
(* version) and get_version(db_url).  Each call opens its own connection,  *)
(* runs Database.upgrade / Database.downgrade on it and drops it; what the *)
(* connection had not committed by then is lost.  A call is one step: the  *)
(* record last keeps its arguments, the marker it started from, the        *)
(* actions it invoked in order, the versions it wrote and how it ended.    *)
(*                                                                         *)
(* Spec is the program with migration actions that may raise; SpecFaults   *)
(* adds calls in which sqlite refuses one statement of the version store.  *)
(* SpecDone is the program with calls that run every step, SpecLoad adds   *)
(* to those the calls on a path that is no directory or on a directory     *)
(* with one file the constructor rejects.  SpecUnits applies the pure      *)
(* parts (load_migrations, the Migration constructors, the name parser)    *)
(* to one input per behaviour, and SpecTransaction runs bodies of two      *)
(* statements under transaction(conn).                                     *)
(* SpecStore is SpecFaults without raising actions, and SpecTwin is        *)
(* SpecDone on directories in which two files carry the same timestamp.    *)
(* SpecAdd is SpecDone with files added to the directory between calls.    *)
(*                                                                         *)
(* File names and identifiers are sequences of one-character strings, so   *)
(* that slicing, isdigit and splitext are computed position by position.   *)
(*                                                                         *)
(* Python values are encoded as integers:                                  *)
(*   NoneVal (-1) is None, Int0 (-2) is the int 0, n >= 0 is a str:        *)
(*   0 is "0", 1..NumVersions are the 14-digit version strings in their    *)
(*   lexicographic order ("0" sorts before every 14-digit string), and     *)
(*   NumVersions + 1 is a str that names no migration (such as "asdf",     *)
(*   which sorts after every digit string).                                *)
(***************************************************************************)
EXTENDS Integers, Sequences, FiniteSets, TLC

\* ---------------------------------------------------------------- bounds
NumUnits == 3
NumVersions == 3

\* ---------------------------------------------------------------- values
NoneVal == -1
Int0 == -2
Str0 == 0

Units == 1..NumUnits

\* one more unit, for the directories in which two files carry one timestamp
Twin == NumUnits + 1
AllUnits == Units \cup {Twin}
Versions == 1..NumVersions
UnknownStr == NumVersions + 1

\* version string carried by the file name of unit u (Migration.get_version)
VersionOf(u) == ((u - 1) % NumVersions) + 1

\* the targets a caller can pass: None, 0, "0", a version string, "asdf"
Targets == {NoneVal, Int0, Str0, UnknownStr} \cup Versions

IsStr(v) == v >= 0

\* Python truth value: None and 0 are falsy, every non-empty str is truthy
Truthy(v) == v # NoneVal /\ v # Int0

\* sqlite TEXT affinity of column version: the int 0 is stored as '0'
StoreText(v) == IF v = Int0 THEN Str0 ELSE v

\* what a migration action executes: schema statements (CREATE/DROP TABLE)
\* or data statements (INSERT/UPDATE/DELETE)
ActionKind(u) == IF u = 2 THEN "dml" ELSE "ddl"

\* ------------------------------------------------------------ connection
\* A database content: the marker table (tbl, rows) and the units whose
\* upgrade effect is present.
EmptyDb == [tbl |-> FALSE, rows |-> <<>>, applied |-> {}]

\* sqlite3.connect(db_url): the connection sees the committed content
\* opened and closed count the connections the call has opened and closed
Connect(com) ==
  [com |-> com, work |-> com, inTx |-> FALSE, rb |-> 0, nw |-> 0,
   opened |-> 1, closed |-> 0,
   trace |-> <<>>, writes |-> <<>>, failed |-> 0, out |-> "run"]

\* variant: a schema statement opens a transaction as a data statement does
ExecDDL_in_transaction(s, w) == [s EXCEPT !.work = w, !.inTx = TRUE]

\* a schema statement: sqlite3 opens no transaction for it, so outside a
\* transaction it is committed at once
ExecDDL(s, w) ==
  [s EXCEPT !.work = w, !.com = IF s.inTx THEN s.com ELSE w]

\* a data statement: sqlite3 opens a transaction before it
ExecDML(s, w) == [s EXCEPT !.work = w, !.inTx = TRUE]

Commit(s) == [s EXCEPT !.com = s.work, !.inTx = FALSE]

Rollback(s) == [s EXCEPT !.work = s.com, !.inTx = FALSE, !.rb = s.rb + 1]

Raise(s, e) == [s EXCEPT !.out = e]

\* --------------------------------------------------------- fault plans
\* A migration action is opaque user code: the plan names the unit whose
\* action raises in this call (0: none) and whether it raises before or
\* after its statement took effect.
NoFault == [unit |-> 0, mode |-> "before"]
ActionFaults(units) == {NoFault} \cup [unit : units, mode : {"before", "after"}]

\* the statements of the version store are numbered within a call; wf is
\* the number of the one sqlite refuses (0: none)
MaxStoreFault == NumUnits + 2
StoreFaults == 0..MaxStoreFault

\* ---------------------------------------------------------- Version store
is_version_controlled(s) == s.work.tbl

Database_get_version(s) ==
  IF ~is_version_controlled(s) THEN NoneVal
  ELSE IF s.work.rows # <<>> THEN s.work.rows[1] ELSE Int0

\* variant: the update is executed and never committed
update_version_uncommitted(s, version, wf) ==
  LET s1 == [s EXCEPT !.nw = @ + 1]
      w == [s.work EXCEPT !.rows = [i \in DOMAIN @ |-> StoreText(version)]]
  IN IF s1.nw = wf \/ ~s.work.tbl
       THEN Raise(Rollback(s1), "SqlError")
       ELSE ExecDML([s1 EXCEPT !.writes = Append(@, StoreText(version))], w)

\* with transaction(conn): conn.execute("update ... set version = :1")
update_version(s, version, wf) ==
  LET s1 == [s EXCEPT !.nw = @ + 1]
      w == [s.work EXCEPT !.rows = [i \in DOMAIN @ |-> StoreText(version)]]
  IN IF s1.nw = wf \/ ~s.work.tbl
       THEN Raise(Rollback(s1), "SqlError")
       ELSE Commit(ExecDML([s1 EXCEPT !.writes = Append(@, StoreText(version))], w))

\* with transaction(conn): create table if not exists; insert values (0)
initialize_version_control(s, wf) ==
  LET s1 == [s EXCEPT !.nw = @ + 1]
      s2 == ExecDDL(s1, [s1.work EXCEPT !.tbl = TRUE])
      s3 == [s2 EXCEPT !.nw = @ + 1]
      w == [s3.work EXCEPT !.rows = Append(@, StoreText(Int0))]
  IN IF s1.nw = wf THEN Raise(Rollback(s1), "SqlError")
     ELSE IF s3.nw = wf THEN Raise(Rollback(s3), "SqlError")
     ELSE Commit(ExecDML([s3 EXCEPT !.writes = Append(@, StoreText(Int0))], w))

\* ------------------------------------------------------------ transaction
\* the statements of a with-block: statement u is a schema statement or a
\* data statement as ActionKind(u) tells, and its effect is u
RECURSIVE RunBody(_, _)
RunBody(s, body) ==
  IF body = <<>> THEN s
  ELSE LET u == Head(body)
           w == [s.work EXCEPT !.applied = @ \cup {u}]
       IN RunBody(IF ActionKind(u) = "ddl" THEN ExecDDL(s, w)
                  ELSE ExecDML(s, w), Tail(body))

\* with transaction(conn): the body runs; commit when it ends, rollback and
\* re-raise when it raises (after its statements, here)
transaction(s, body, raises) ==
  LET s1 == RunBody(s, body)
  IN IF raises THEN Raise(Rollback(s1), "Exception") ELSE Commit(s1)

\* ---------------------------------------------------------- Migration set
VersionsIn(migrations) == {VersionOf(migrations[i]) : i \in DOMAIN migrations}

\* _assert_migration_exists: TRUE when it raises Error
assert_migration_exists(migrations, version) == version \notin VersionsIn(migrations)

\* list.sort is stable: insert x behind every element that does not sort
\* after it
RECURSIVE InsertBy(_, _, _)
InsertBy(x, sorted, reverse) ==
  IF sorted = <<>> THEN <<x>>
  ELSE LET h == Head(sorted)
           after == IF reverse THEN VersionOf(h) < VersionOf(x)
                    ELSE VersionOf(x) < VersionOf(h)
       IN IF after THEN <<x>> \o sorted
          ELSE <<h>> \o InsertBy(x, Tail(sorted), reverse)

RECURSIVE SortFrom(_, _, _)
SortFrom(migrations, sorted, reverse) ==
  IF migrations = <<>> THEN sorted
  ELSE SortFrom(Tail(migrations), InsertBy(Head(migrations), sorted, reverse), reverse)

\* variant: the list is walked in glob order
sort_off(migrations, reverse) == migrations

\* variant: reverse is ignored
sort_ignore_reverse(migrations, reverse) == SortFrom(migrations, <<>>, FALSE)

\* variant: the descending list is the ascending list read backwards
sort_then_reverse(migrations, reverse) ==
  LET ascending == SortFrom(migrations, <<>>, FALSE)
  IN IF reverse
       THEN [i \in DOMAIN ascending |-> ascending[Len(ascending) + 1 - i]]
       ELSE ascending

\* migrations.sort(key=lambda x: x.get_version(), reverse=reverse)
sort(migrations, reverse) == SortFrom(migrations, <<>>, reverse)

\* --------------------------------------------------------- Migration unit
\* A str is the sequence of its characters.
UTC_LENGTH == 14

DigitChars == <<"0", "1", "2", "3", "4", "5", "6", "7", "8", "9">>
Digit == {DigitChars[i] : i \in DOMAIN DigitChars}

\* str.isdigit(): every character is a digit and there is at least one
isdigit(str) == str # <<>> /\ \A i \in DOMAIN str : str[i] \in Digit

\* str[:n] and str[n:]
Take(str, n) == SubSeq(str, 1, IF n < Len(str) THEN n ELSE Len(str))
Drop(str, n) == SubSeq(str, n + 1, Len(str))

\* "while self.name.startswith('_'): self.name = self.name[1:]"
RECURSIVE StripUnderscores(_)
StripUnderscores(str) ==
  IF str # <<>> /\ Head(str) = "_" THEN StripUnderscores(Tail(str)) ELSE str

\* os.path.splitext(filename)[0]: the name up to its last dot, when a
\* character that is not a dot stands before that dot
splitext(filename) ==
  LET dots == {i \in DOMAIN filename : filename[i] = "."}
  IN IF dots = {} THEN filename
     ELSE LET last_dot == CHOOSE i \in dots : \A j \in dots : j <= i
          IN IF \E j \in 1..(last_dot - 1) : filename[j] # "."
               THEN SubSeq(filename, 1, last_dot - 1)
               ELSE filename

\* Migration.get_version: the first UTC_LENGTH characters of the filename,
\* or InvalidNameError
Migration_get_version(filename) ==
  IF Len(filename) < UTC_LENGTH
    THEN [err |-> "InvalidNameError", version |-> <<>>]
  ELSE LET timestamp == Take(filename, UTC_LENGTH)
       IN IF ~isdigit(timestamp)
            THEN [err |-> "InvalidNameError", version |-> <<>>]
            ELSE [err |-> "none", version |-> timestamp]

\* Migration.name: the module name behind the timestamp, without its
\* leading underscores
Migration_name(filename) ==
  StripUnderscores(Drop(splitext(filename), UTC_LENGTH))

\* None where a str is expected: no str, a str being a sequence of single
\* characters
NullStr == <<"None">>

\* the part of an identifier behind its last "." or "/"
FinalSegment(identifier) ==
  LET seps == {i \in DOMAIN identifier : identifier[i] \in {".", "/"}}
  IN IF seps = {} THEN identifier
     ELSE SubSeq(identifier,
                 (CHOOSE i \in seps : \A j \in seps : j <= i) + 1,
                 Len(identifier))

\* _parse_migration_name(identifier): (version, name), or (None, None)
parse_migration_name(identifier) ==
  LET segment == FinalSegment(identifier)
  IN IF /\ Len(segment) >= UTC_LENGTH + 1
        /\ segment[1] \in {"v", "V"}
        /\ isdigit(SubSeq(segment, 2, UTC_LENGTH + 1))
       THEN [version |-> SubSeq(segment, 2, UTC_LENGTH + 1),
             name |-> StripUnderscores(Drop(segment, UTC_LENGTH + 1))]
     ELSE IF Len(segment) >= UTC_LENGTH /\ isdigit(Take(segment, UTC_LENGTH))
       THEN [version |-> Take(segment, UTC_LENGTH),
             name |-> StripUnderscores(Drop(segment, UTC_LENGTH))]
     ELSE [version |-> NullStr, name |-> NullStr]

\* has_method for the two targets, in the order of the list
Missing(has) ==
  (IF "upgrade" \in has THEN <<>> ELSE <<"upgrade">>)
  \o (IF "downgrade" \in has THEN <<>> ELSE <<"downgrade">>)

\* what a constructor that raised leaves: no unit
NoMigration(e, loaded, missing) ==
  [err |-> e, made |-> FALSE, version |-> <<>>, unit |-> 0,
   loaded |-> loaded, missing |-> missing]

\* variant: only the first missing method is named
Migration_first_missing(file) ==
  LET v == Migration_get_version(file.filename)
  IN IF v.err # "none" THEN NoMigration("InvalidNameError", FALSE, <<>>)
     ELSE IF ~file.loads
       THEN NoMigration("InvalidMigrationError", TRUE, <<>>)
     ELSE IF Missing(file.has) # <<>>
       THEN NoMigration("InvalidMigrationError", TRUE,
                        <<Head(Missing(file.has))>>)
     ELSE [err |-> "none", made |-> TRUE, version |-> v.version,
           unit |-> file.unit, loaded |-> TRUE, missing |-> <<>>]

\* Migration(path): a file is its filename, whether its source loads, the
\* callables its module has and the unit its upgrade and downgrade are;
\* loaded tells whether the constructor got to load the module
Migration(file) ==
  LET v == Migration_get_version(file.filename)
  IN IF v.err # "none" THEN NoMigration("InvalidNameError", FALSE, <<>>)
     ELSE IF ~file.loads
       THEN NoMigration("InvalidMigrationError", TRUE, <<>>)
     ELSE IF Missing(file.has) # <<>>
       THEN NoMigration("InvalidMigrationError", TRUE, Missing(file.has))
     ELSE [err |-> "none", made |-> TRUE, version |-> v.version,
           unit |-> file.unit, loaded |-> TRUE, missing |-> <<>>]

\* variant: the VERSION attribute is looked at first
from_module_attribute_first(module) ==
  LET parsed == parse_migration_name(module.name)
  IN IF module.VERSION = NullStr /\ parsed.version = NullStr
       THEN NoMigration("InvalidMigrationError", TRUE, <<>>)
     ELSE IF Missing(module.has) # <<>>
       THEN NoMigration("InvalidMigrationError", TRUE, Missing(module.has))
     ELSE [err |-> "none", made |-> TRUE,
           version |-> IF module.VERSION # NullStr THEN module.VERSION
                       ELSE parsed.version,
           unit |-> module.unit, loaded |-> TRUE, missing |-> <<>>]

\* Migration.from_module(module): a module is its declared name, its VERSION
\* attribute (NullStr: it has none), the callables it has and the unit its
\* upgrade and downgrade are
from_module(module) ==
  LET parsed == parse_migration_name(module.name)
  IN IF parsed.version = NullStr /\ module.VERSION = NullStr
       THEN NoMigration("InvalidMigrationError", TRUE, <<>>)
     ELSE IF Missing(module.has) # <<>>
       THEN NoMigration("InvalidMigrationError", TRUE, Missing(module.has))
     ELSE [err |-> "none", made |-> TRUE,
           version |-> IF parsed.version # NullStr THEN parsed.version
                       ELSE module.VERSION,
           unit |-> module.unit, loaded |-> TRUE, missing |-> <<>>]

\* ------------------------------------------------------------------ files
\* the 14-digit timestamp of version v, as the test migrations have them
VersionStr(v) ==
  <<"2", "0", "0", "9", "1", "1", "1", "2", "1", "5", "0", "2", "0">> \o <<DigitChars[v + 1]>>

Methods == {"upgrade", "downgrade"}

\* the file of unit u: "<timestamp>_<u>.py", a module with both functions
File(u) ==
  [filename |-> VersionStr(VersionOf(u)) \o <<"_", DigitChars[u + 1]>>
                \o <<".", "p", "y">>,
   loads |-> TRUE, has |-> Methods, unit |-> u]

\* filenames of files that are not of the units: a timestamp and a name, a
\* name shorter than a timestamp, a name without timestamp, a timestamp
\* behind the letter v
StampedName == <<"2", "0", "0", "9", "1", "1", "1", "2", "1", "3", "0", "1", "0", "1", "_", "a", ".", "p", "y">>
ShortName == <<"1", "2", "3", "4", "5", ".", "p", "y">>
PlainName == <<"n", "o", "t", "_", "a", "_", "m", "i", "g", "r", "a", "t", "i", "o", "n", ".", "p", "y">>
VName == <<"v", "2", "0", "0", "9", "1", "1", "1", "2", "1", "5", "0", "2", "0", "0", "_", "a", ".", "p", "y">>

\* the files that are no migration: the filename has no timestamp in front,
\* the source does not load, or the module lacks a function
InvalidFiles ==
  {f \in [filename : {StampedName, ShortName, PlainName, VName},
          loads : BOOLEAN, has : SUBSET Methods, unit : {0}] :
     ~(f.filename = StampedName /\ f.loads /\ f.has = Methods)}

\* the invalid files with one defect
OneDefect ==
  {f \in InvalidFiles :
     \/ f.filename # StampedName /\ f.loads /\ f.has = Methods
     \/ f.filename = StampedName /\ ~f.loads /\ f.has = Methods
     \/ f.filename = StampedName /\ f.loads}

Files == {File(u) : u \in Units} \cup InvalidFiles

\* the files of the units and the result of the constructor for each file,
\* computed once
FileOf == [u \in AllUnits |-> File(u)]

MigrationOfUnit == [u \in AllUnits |-> Migration(File(u))]

MigrationOfFile == [file \in InvalidFiles |-> Migration(file)]

MigrationOf(file) ==
  IF file.unit \in AllUnits /\ file = FileOf[file.unit]
    THEN MigrationOfUnit[file.unit]
    ELSE MigrationOfFile[file]

\* variant: a file that is no migration is left out of the list
RECURSIVE LoadFrom_skip(_, _, _)
LoadFrom_skip(files, i, acc) ==
  IF i > Len(files)
    THEN [err |-> "none", returned |-> TRUE, migrations |-> acc]
  ELSE LET m == MigrationOf(files[i])
       IN IF m.err # "none" THEN LoadFrom_skip(files, i + 1, acc)
          ELSE LoadFrom_skip(files, i + 1, Append(acc, m.unit))

\* [Migration(f) for f in migration_files] from file i on: the exception of
\* a constructor leaves the comprehension and no list is returned
RECURSIVE LoadFrom(_, _, _)
LoadFrom(files, i, acc) ==
  IF i > Len(files)
    THEN [err |-> "none", returned |-> TRUE, migrations |-> acc]
  ELSE LET m == MigrationOf(files[i])
       IN IF m.err # "none"
            THEN [err |-> m.err, returned |-> FALSE, migrations |-> <<>>]
          ELSE LoadFrom(files, i + 1, Append(acc, m.unit))

\* load_migrations(directory): a directory is whether the path is one and
\* the "*.py" files of it in glob order; the list holds the units
load_migrations(directory) ==
  IF ~directory.isdir
    THEN [err |-> "Error: not a directory", returned |-> FALSE,
          migrations |-> <<>>]
    ELSE LoadFrom(directory.files, 1, <<>>)

\* the directory whose "*.py" files are those of the units of a listing
Directory(listing) ==
  [isdir |-> TRUE, files |-> [i \in DOMAIN listing |-> FileOf[listing[i]]]]

\* a path that is no directory
NoDirectory == [isdir |-> FALSE, files |-> <<>>]

\* the directory with one more file, listed by glob behind pos files
WithFile(directory, pos, file) ==
  [directory EXCEPT !.files = SubSeq(@, 1, pos) \o <<file>>
                              \o SubSeq(@, pos + 1, Len(@))]

\* the directories of a listing and one file of a set
WithOneOf(listing, files) ==
  {WithFile(Directory(listing), pos, file) :
     pos \in 0..Len(listing), file \in files}

\* those in which glob lists the file first or last
WithOneOfAtEnd(listing, files) ==
  {WithFile(Directory(listing), pos, file) :
     pos \in {0, Len(listing)}, file \in files}

\* Migration.upgrade / Migration.downgrade: run the module's function on
\* the connection; nothing here opens, commits or rolls back a transaction
RunAction(s, u, direction, fm) ==
  LET s1 == [s EXCEPT !.trace = Append(@, u)]
      w == [s.work EXCEPT !.applied =
              IF direction = "upgrade" THEN @ \cup {u} ELSE @ \ {u}]
      done == IF ActionKind(u) = "ddl" THEN ExecDDL(s1, w) ELSE ExecDML(s1, w)
  IN IF fm.unit # u THEN done
     ELSE IF fm.mode = "before"
       THEN Raise([s1 EXCEPT !.failed = u], "ActionFault")
     ELSE Raise([done EXCEPT !.failed = u], "ActionFault")

\* ------------------------------------------------------ Migration engine
Return(s) == IF s.out = "run" THEN Raise(s, "ok") ELSE s

\* Python compares str with str only
Comparable(a, b) == IsStr(a) /\ IsStr(b)

\* variant: "<" for "<="
upgrade_skip_strict(current_version, database_version) ==
  current_version < database_version

\* Database.upgrade: "if current_version <= database_version: continue"
upgrade_skip(current_version, database_version) ==
  current_version <= database_version

\* variant: the walk never stops at the target
upgrade_stop_never(current_version, target_version) == FALSE

\* Database.upgrade: "if target_version and current_version > target_version"
upgrade_stop(current_version, target_version) ==
  Truthy(target_version) /\ current_version > target_version

\* variant: no migration is skipped
downgrade_skip_never(current_version, database_version) == FALSE

\* Database.downgrade: "if current_version > database_version: continue"
downgrade_skip(current_version, database_version) ==
  current_version > database_version

\* variant: "<" for "<="
downgrade_stop_strict(current_version, target_version) ==
  current_version < target_version

\* Database.downgrade: "if current_version <= target_version: break"
downgrade_stop(current_version, target_version) ==
  current_version <= target_version

\* variant: 0 is written after every reverted unit
next_version_zero(migrations, i) == Int0

\* variant: the version of the reverted unit itself is written
next_version_own(migrations, i) == VersionOf(migrations[i])

\* Database.downgrade: the version of the next migration of the list, or 0
next_version(migrations, i) ==
  IF i < Len(migrations) THEN VersionOf(migrations[i + 1]) ELSE Int0

\* variant: a failing action is caught and the walk goes on
RECURSIVE UpgradeLoop_catch(_, _, _, _, _, _, _)
UpgradeLoop_catch(s, migrations, i, database_version, target_version, fm, wf) ==
  IF i > Len(migrations) THEN s
  ELSE
    LET migration == migrations[i]
        current_version == VersionOf(migration)
    IN IF ~Comparable(current_version, database_version)
         THEN Raise(s, "TypeError")
       ELSE IF upgrade_skip(current_version, database_version)
         THEN UpgradeLoop_catch(s, migrations, i + 1, database_version,
                                target_version, fm, wf)
       ELSE IF upgrade_stop(current_version, target_version)
         THEN s
       ELSE
         LET s1 == RunAction(s, migration, "upgrade", fm)
             s2 == update_version(s1, current_version, wf)
         IN IF s1.out # "run"
              THEN UpgradeLoop_catch(Raise(s1, "run"), migrations, i + 1,
                                     database_version, target_version, fm, wf)
            ELSE IF s2.out # "run" THEN s2
            ELSE UpgradeLoop_catch(s2, migrations, i + 1, database_version,
                                   target_version, fm, wf)

\* the loop of Database.upgrade from index i; database_version is the value
\* read before the loop
RECURSIVE UpgradeLoop(_, _, _, _, _, _, _)
UpgradeLoop(s, migrations, i, database_version, target_version, fm, wf) ==
  IF i > Len(migrations) THEN s
  ELSE
    LET migration == migrations[i]
        current_version == VersionOf(migration)
    IN IF ~Comparable(current_version, database_version)
         THEN Raise(s, "TypeError")
       ELSE IF upgrade_skip(current_version, database_version)
         THEN UpgradeLoop(s, migrations, i + 1, database_version,
                          target_version, fm, wf)
       ELSE IF upgrade_stop(current_version, target_version)
         THEN s
       ELSE
         LET s1 == RunAction(s, migration, "upgrade", fm)
             s2 == update_version(s1, current_version, wf)
         IN IF s1.out # "run" THEN s1
            ELSE IF s2.out # "run" THEN s2
            ELSE UpgradeLoop(s2, migrations, i + 1, database_version,
                             target_version, fm, wf)

\* variant: the target is looked up after the walk
Database_upgrade_check_last(s, migrations, target_version, fm, wf) ==
  LET r == UpgradeLoop(s, sort(migrations, FALSE), 1, Database_get_version(s),
                       target_version, fm, wf)
  IN IF r.out = "run" /\ Truthy(target_version)
        /\ assert_migration_exists(migrations, target_version)
       THEN Raise(r, "Error: no migration")
       ELSE r

Database_upgrade(s, migrations, target_version, fm, wf) ==
  IF Truthy(target_version) /\ assert_migration_exists(migrations, target_version)
    THEN Raise(s, "Error: no migration")
    ELSE UpgradeLoop(s, sort(migrations, FALSE), 1, Database_get_version(s),
                     target_version, fm, wf)

\* the loop of Database.downgrade from index i
RECURSIVE DowngradeLoop(_, _, _, _, _, _, _)
DowngradeLoop(s, migrations, i, database_version, target_version, fm, wf) ==
  IF i > Len(migrations) THEN s
  ELSE
    LET migration == migrations[i]
        current_version == VersionOf(migration)
    IN IF ~Comparable(current_version, database_version)
         THEN Raise(s, "TypeError")
       ELSE IF downgrade_skip(current_version, database_version)
         THEN DowngradeLoop(s, migrations, i + 1, database_version,
                            target_version, fm, wf)
       ELSE IF ~Comparable(current_version, target_version)
         THEN Raise(s, "TypeError")
       ELSE IF downgrade_stop(current_version, target_version) THEN s
       ELSE
         LET s1 == RunAction(s, migration, "downgrade", fm)
             s2 == update_version(s1, next_version(migrations, i), wf)
         IN IF s1.out # "run" THEN s1
            ELSE IF s2.out # "run" THEN s2
            ELSE DowngradeLoop(s2, migrations, i + 1, database_version,
                               target_version, fm, wf)

Database_downgrade(s, migrations, target_version, fm, wf) ==
  IF target_version \notin {Int0, Str0}
     /\ assert_migration_exists(migrations, target_version)
    THEN Raise(s, "Error: no migration")
    ELSE DowngradeLoop(s, sort(migrations, TRUE), 1, Database_get_version(s),
                       target_version, fm, wf)

\* ------------------------------------------------------- public functions
\* Database(db_url) while the call holds another one: one more connection
Database(com, held) == [Connect(com) EXCEPT !.opened = held.opened + 1]

\* Database.close, as contextlib.closing calls it when the with-block of a
\* public function is left: one connection of the call is closed
Database_close(s) == [s EXCEPT !.closed = @ + 1]

\* upgrade(db_url, migration_dir, version): the with-statement opens a
\* Database, its first line opens another one and works on that; the one
\* the with-statement opened is closed
upgrade(com, migration_dir, version, fm, wf) ==
  LET held == Connect(com)
      db0 == Database(com, held)
      db1 == IF ~is_version_controlled(db0)
               THEN initialize_version_control(db0, wf) ELSE db0
      migrations == load_migrations(migration_dir)
  IN Database_close(
       IF db1.out # "run" THEN db1
       ELSE IF migrations.err # "none" THEN Raise(db1, migrations.err)
       ELSE Return(Database_upgrade(db1, migrations.migrations, version,
                                    fm, wf)))

\* variant: downgrade puts the database under version control as upgrade does
downgrade_initializes(com, migration_dir, version, fm, wf) ==
  LET db0 == Connect(com)
      db1 == IF ~is_version_controlled(db0)
               THEN initialize_version_control(db0, wf) ELSE db0
      migrations == load_migrations(migration_dir)
  IN Database_close(
       IF db1.out # "run" THEN db1
       ELSE IF migrations.err # "none" THEN Raise(db1, migrations.err)
       ELSE Return(Database_downgrade(db1, migrations.migrations, version,
                                      fm, wf)))

\* downgrade(db_url, migration_dir, version)
downgrade(com, migration_dir, version, fm, wf) ==
  LET db0 == Connect(com)
      migrations == load_migrations(migration_dir)
  IN Database_close(
       IF ~is_version_controlled(db0)
         THEN Raise(db0, "Error: not version controlled")
       ELSE IF migrations.err # "none" THEN Raise(db0, migrations.err)
       ELSE Return(Database_downgrade(db0, migrations.migrations, version,
                                      fm, wf)))

\* variant: get_version puts the database under version control as upgrade
\* does
get_version_initializes(com) ==
  LET db0 == Connect(com)
      db1 == IF ~is_version_controlled(db0)
               THEN initialize_version_control(db0, 0) ELSE db0
  IN [conn |-> Database_close(Return(db1)), ret |-> Database_get_version(db1)]

\* get_version(db_url): the connection when the call ends and the value
\* returned
get_version(com) ==
  LET db0 == Connect(com)
  IN [conn |-> Database_close(Return(db0)), ret |-> Database_get_version(db0)]

\* ------------------------------------------------------------------ state
VARIABLES
  db,    \* the committed content of the database file
  dir,   \* the migration directory: the units in the order glob lists them
  last   \* the last call: its arguments, the marker before it, its outcome

vars == <<db, dir, last>>

\* the files of a set of units in name order, or in reverse name order
RECURSIVE Listing(_, _)
Listing(units, reversed) ==
  IF units = {} THEN <<>>
  ELSE LET u == CHOOSE x \in units : \A y \in units : x <= y
       IN IF reversed THEN Listing(units \ {u}, reversed) \o <<u>>
          ELSE <<u>> \o Listing(units \ {u}, reversed)

\* the directories: any units, listed by glob in one of the two orders
Dirs == {Listing(units, reversed) : units \in SUBSET Units, reversed \in BOOLEAN}

\* the directories in which the file of unit 1 and the file of Twin carry
\* the same timestamp
TwinDirs ==
  {Listing(units, reversed) :
     units \in {x \in SUBSET AllUnits : {1, Twin} \subseteq x},
     reversed \in BOOLEAN}

UnitsOf(directory) == {directory[i] : i \in DOMAIN directory}

Marker(content) == [tbl |-> content.tbl, rows |-> content.rows]

\* the record of a call that ended in connection state s
Called(op, target, s, ret) ==
  [op |-> op, target |-> target, pre |-> Marker(db),
   preApplied |-> db.applied, out |-> s.out, trace |-> s.trace,
   writes |-> s.writes, failed |-> s.failed,
   ret |-> ret, openTx |-> s.inTx, rb |-> s.rb,
   opened |-> s.opened, closed |-> s.closed]

\* before the first call
NoCall ==
  [op |-> "none", target |-> NoneVal, pre |-> Marker(EmptyDb),
   preApplied |-> {}, out |-> "ok", trace |-> <<>>,
   writes |-> <<>>, failed |-> 0,
   ret |-> NoneVal, openTx |-> FALSE, rb |-> 0,
   opened |-> 0, closed |-> 0]

Init ==
  /\ db = EmptyDb
  /\ dir \in Dirs
  /\ last = NoCall

\* a new database and a directory with two files of one timestamp
InitTwin ==
  /\ db = EmptyDb
  /\ dir \in TwinDirs
  /\ last = NoCall

\* a call of upgrade; the connection is dropped afterwards, so only what
\* was committed stays in the file
UpgradeCall(directory, fm, wf) ==
  \E version \in Targets :
    LET s == upgrade(db, directory, version, fm, wf)
    IN /\ db' = s.com
       /\ last' = Called("upgrade", version, s, NoneVal)
       /\ UNCHANGED dir

DowngradeCall(directory, fm, wf) ==
  \E version \in Targets :
    LET s == downgrade(db, directory, version, fm, wf)
    IN /\ db' = s.com
       /\ last' = Called("downgrade", version, s, NoneVal)
       /\ UNCHANGED dir

\* the calls in which sqlite executes every statement of the version store
Upgrade == \E fm \in ActionFaults(UnitsOf(dir)) : UpgradeCall(Directory(dir), fm, 0)

Downgrade == \E fm \in ActionFaults(UnitsOf(dir)) : DowngradeCall(Directory(dir), fm, 0)

GetVersion ==
  LET r == get_version(db)
  IN /\ db' = r.conn.com
     /\ last' = Called("get_version", NoneVal, r.conn, r.ret)
     /\ UNCHANGED dir

\* the calls in which sqlite refuses one statement of the version store
UpgradeStoreFault == \E wf \in 1..MaxStoreFault : UpgradeCall(Directory(dir), NoFault, wf)

DowngradeStoreFault == \E wf \in 1..MaxStoreFault : DowngradeCall(Directory(dir), NoFault, wf)

\* the calls in which every step succeeds
UpgradeDone == UpgradeCall(Directory(dir), NoFault, 0)

DowngradeDone == DowngradeCall(Directory(dir), NoFault, 0)

\* the directories that do not load: a path that is no directory, and the
\* directory with one file that is no migration
InvalidDirs == {NoDirectory} \cup WithOneOfAtEnd(dir, OneDefect)

\* the calls made while the directory does not load
UpgradeInvalidDir ==
  \E directory \in InvalidDirs : UpgradeCall(directory, NoFault, 0)

DowngradeInvalidDir ==
  \E directory \in InvalidDirs : DowngradeCall(directory, NoFault, 0)

Outcome(err) == IF err = "none" THEN "ok" ELSE err

\* The functions that make migrations are pure: a behaviour of SpecUnits is
\* one call of one of them, on a database no call has touched.
\* a call of load_migrations
LoadMigrations ==
  \E listing \in Dirs :
  \E directory \in {Directory(listing), NoDirectory}
                    \cup WithOneOf(listing, InvalidFiles) :
    LET r == load_migrations(directory)
    IN /\ last.op = "none"
       /\ last' = [op |-> "load_migrations", arg |-> directory,
                   out |-> Outcome(r.err), returned |-> r.returned,
                   migrations |-> r.migrations]
       /\ UNCHANGED <<db, dir>>

\* a call of the constructor Migration(path)
NewMigration ==
  \E file \in Files :
    LET m == Migration(file)
    IN /\ last.op = "none"
       /\ last' = [op |-> "Migration", arg |-> file, out |-> Outcome(m.err),
                   made |-> m.made, version |-> m.version,
                   name |-> IF m.made THEN Migration_name(file.filename)
                            ELSE <<>>,
                   unit |-> m.unit, loaded |-> m.loaded,
                   missing |-> m.missing]
       /\ UNCHANGED <<db, dir>>

Next == Upgrade \/ Downgrade \/ GetVersion

Spec == Init /\ [][Next]_vars

NextFaults ==
  Upgrade \/ Downgrade \/ GetVersion \/ UpgradeStoreFault \/ DowngradeStoreFault

SpecFaults == Init /\ [][NextFaults]_vars


\* the program called with directories that load and directories that do not
NextLoad ==
  \/ UpgradeDone \/ DowngradeDone \/ GetVersion
  \/ UpgradeInvalidDir \/ DowngradeInvalidDir

SpecLoad == Init /\ [][NextLoad]_vars

\* the with-blocks: one or two statements, raising or not
Bodies ==
  {<<u>> : u \in Units}
  \cup {<<u, v>> : <<u, v>> \in {p \in Units \X Units : p[1] # p[2]}}

\* a with-block on a new connection, a rollback after it, and the
\* connection dropped: what the statements of the body wrote that is visible
\* after the block and after the later rollback
Transaction ==
  \E body \in Bodies, raises \in BOOLEAN :
    LET s == transaction(Connect(db), body, raises)
        later == Rollback(s)
    IN /\ db' = later.com
       /\ last' = [op |-> "transaction", body |-> body, raises |-> raises,
                   out |-> Return(s).out, pre |-> db.applied,
                   visible |-> s.work.applied,
                   kept |-> later.work.applied]
       /\ UNCHANGED dir

SpecTransaction == Init /\ [][Transaction]_vars

\* the identifiers given to the parser are made of four parts: a namespace
\* prefix, a marker, a run of characters where the timestamp stands, a tail
Stamp == <<"2", "0", "2", "4", "0", "1", "0", "1", "1", "2", "0", "0", "0", "0">>

Prefixes == {<<>>, <<"a", ".">>, <<"a", ".", "b", ".">>, <<"a", "/">>}

Markers == {<<>>, <<"v">>, <<"V">>, <<"v", "v">>, <<"_">>, <<"a">>}

\* a run is its text, the timestamp it starts with (or none) and what
\* follows the timestamp in it
Runs ==
  {[text |-> Stamp, stamp |-> Stamp, extra |-> <<>>],
   [text |-> Stamp \o <<"7">>, stamp |-> Stamp, extra |-> <<"7">>],
   [text |-> Take(Stamp, UTC_LENGTH - 1), stamp |-> <<>>, extra |-> <<>>],
   [text |-> [Stamp EXCEPT ![1] = "a"], stamp |-> <<>>, extra |-> <<>>],
   [text |-> [Stamp EXCEPT ![7] = "_"], stamp |-> <<>>, extra |-> <<>>],
   [text |-> [Stamp EXCEPT ![UTC_LENGTH] = "a"], stamp |-> <<>>,
    extra |-> <<>>],
   [text |-> <<"1", "2", "3", "4", "5">>, stamp |-> <<>>, extra |-> <<>>],
   [text |-> <<>>, stamp |-> <<>>, extra |-> <<>>]}

\* a tail is its text and the text without its leading underscores
Tails ==
  {[text |-> <<>>, stripped |-> <<>>],
   [text |-> <<"_">>, stripped |-> <<>>],
   [text |-> <<"a">>, stripped |-> <<"a">>],
   [text |-> <<"_", "a">>, stripped |-> <<"a">>],
   [text |-> <<"_", "_", "a">>, stripped |-> <<"a">>],
   [text |-> <<"_", "a", "_", "b">>, stripped |-> <<"a", "_", "b">>]}

\* a call of _parse_migration_name
ParseMigrationName ==
  \E prefix \in Prefixes, marker \in Markers, run \in Runs, tail \in Tails :
    LET identifier == prefix \o marker \o run.text \o tail.text
        r == parse_migration_name(identifier)
    IN /\ last.op = "none"
       /\ last' = [op |-> "_parse_migration_name", arg |-> identifier,
                   marker |-> marker, run |-> run, tail |-> tail,
                   out |-> "ok", version |-> r.version, name |-> r.name]
       /\ UNCHANGED <<db, dir>>

\* the VERSION attribute of the modules that have one
VersionAttribute == <<"2", "0", "2", "5", "0", "1", "0", "1", "0", "0", "0", "0", "0", "0">>

\* a call of Migration.from_module
FromModule ==
  \E prefix \in Prefixes, marker \in Markers, run \in Runs, tail \in Tails,
     attribute \in {NullStr, VersionAttribute}, has \in {Methods, {"upgrade"}} :
    LET module == [name |-> prefix \o marker \o run.text \o tail.text,
                   VERSION |-> attribute, has |-> has, unit |-> 1]
        m == from_module(module)
    IN /\ last.op = "none"
       /\ last' = [op |-> "from_module", arg |-> module, marker |-> marker,
                   run |-> run, out |-> Outcome(m.err), made |-> m.made,
                   version |-> m.version, unit |-> m.unit,
                   missing |-> m.missing]
       /\ UNCHANGED <<db, dir>>

\* the lists given to sort: the units of a directory and two more files
\* with a timestamp that is already there, in any order
SortUnits == 1..(NumUnits + 2)

Lists ==
  UNION {{l \in [1..n -> SortUnits] : \A i, j \in 1..n : i # j => l[i] # l[j]} :
           n \in 0..Cardinality(SortUnits)}

\* a call of list.sort by version
Sort ==
  \E migrations \in Lists, reverse \in BOOLEAN :
    /\ last.op = "none"
    /\ last' = [op |-> "sort", arg |-> migrations, reverse |-> reverse,
                out |-> "ok", sorted |-> sort(migrations, reverse)]
    /\ UNCHANGED <<db, dir>>

\* the program when every call runs all its steps
NextDone == UpgradeDone \/ DowngradeDone \/ GetVersion

SpecDone == Init /\ [][NextDone]_vars

\* the program with actions that succeed and a version store in which sqlite
\* may refuse one statement of a call
NextStore ==
  \/ UpgradeDone \/ DowngradeDone \/ GetVersion
  \/ UpgradeStoreFault \/ DowngradeStoreFault

SpecStore == Init /\ [][NextStore]_vars

\* a migration file is added to the directory between two calls; glob lists
\* the files in one of the two orders afterwards
AddUnit ==
  \E u \in Units \ UnitsOf(dir), reversed \in BOOLEAN :
    /\ dir' = Listing(UnitsOf(dir) \cup {u}, reversed)
    /\ UNCHANGED <<db, last>>

\* the calls that run all their steps, on a directory that grows
NextAdd == UpgradeDone \/ DowngradeDone \/ GetVersion \/ AddUnit

SpecAdd == Init /\ [][NextAdd]_vars

\* the same calls on directories with a duplicated version
SpecTwin == InitTwin /\ [][NextDone]_vars

\* the functions that make migrations, called on their own
NextUnits ==
  LoadMigrations \/ NewMigration \/ ParseMigrationName \/ FromModule \/ Sort

\* their inputs are chosen by the actions; the database and the directory
\* of the program's calls play no part
InitUnits == Init /\ dir = <<>>

SpecUnits == InitUnits /\ [][NextUnits]_vars

\* caribou.Error with its two messages, the TypeError of a comparison, the
\* exception of a migration action, the sqlite3 error of a refused statement
Errors == {"Error: no migration", "Error: not version controlled"}
LoadErrors ==
  {"Error: not a directory", "InvalidNameError", "InvalidMigrationError"}
Outcomes ==
  {"ok", "TypeError", "ActionFault", "SqlError", "Exception"}
  \cup Errors \cup LoadErrors

TypeOK ==
  /\ db.tbl \in BOOLEAN
  /\ db.applied \subseteq AllUnits
  /\ dir \in Dirs \cup TwinDirs
  /\ last.op \in {"none", "upgrade", "downgrade", "get_version",
                 "load_migrations", "Migration", "transaction",
                 "_parse_migration_name", "from_module", "sort"}
  /\ last.out \in Outcomes

\* ----------------------------------------------------------- properties
DirUnits == UnitsOf(dir)

DistinctVersions ==
  \A i, j \in DOMAIN dir : i # j => VersionOf(dir[i]) # VersionOf(dir[j])

MaxVersion == CHOOSE v \in VersionsIn(dir) : \A w \in VersionsIn(dir) : w <= v

\* the units of a sequence of invocations
InvokedIn(t) == {t[i] : i \in DOMAIN t}

OnceEach(t) == Cardinality(InvokedIn(t)) = Len(t)

Ascending(t) ==
  \A i, j \in DOMAIN t : i < j => VersionOf(t[i]) < VersionOf(t[j])

Descending(t) ==
  \A i, j \in DOMAIN t : i < j => VersionOf(t[i]) > VersionOf(t[j])

\* the units of the directory with lo < version <= hi
Between(lo, hi) == {u \in DirUnits : lo < VersionOf(u) /\ VersionOf(u) <= hi}

\* the version a marker records
Recorded(m) == m.rows[1]

\* the version the walk of the last call started from: a fresh database is
\* put under version control at "0"
StartVersion == IF last.pre.tbl THEN Recorded(last.pre) ELSE Str0

At(v) == [tbl |-> TRUE, rows |-> <<v>>]

C2_UpgradeToTarget ==
  (/\ last.op = "upgrade" /\ last.target \in VersionsIn(dir)
   /\ last.pre.tbl /\ Recorded(last.pre) < last.target /\ last.failed = 0)
  => /\ last.out = "ok"
     /\ InvokedIn(last.trace) = Between(Recorded(last.pre), last.target)
     /\ OnceEach(last.trace)
     /\ \A u \in InvokedIn(last.trace) : VersionOf(u) <= last.target
     /\ Marker(db) = At(last.target)

C2_Witness ==
  /\ last.op = "upgrade" /\ last.target \in VersionsIn(dir)
  /\ last.pre.tbl /\ Recorded(last.pre) < last.target
  /\ last.out = "ok" /\ last.trace # <<>>
  /\ \E u \in DirUnits : VersionOf(u) > last.target
  /\ Marker(db) = At(last.target)

C4_UpgradeThenDowngrade ==
  [][/\ (/\ DistinctVersions
         /\ last.op = "upgrade" /\ last.out = "ok"
         /\ db.tbl /\ last.target \in {NoneVal, Recorded(db)}
         /\ last'.op = "downgrade" /\ last'.target \in VersionsIn(dir)
         /\ last'.target < Recorded(db) /\ last'.failed = 0)
        => /\ last'.out = "ok"
           /\ Marker(db') = At(last'.target)
           /\ InvokedIn(last'.trace) = Between(last'.target, Recorded(db))
           /\ OnceEach(last'.trace)
           /\ Descending(last'.trace)
     /\ (/\ DistinctVersions
         /\ last.op = "downgrade" /\ last.out = "ok"
         /\ last.target \in VersionsIn(dir)
         /\ last'.op = "downgrade" /\ last'.target = last.target)
        => /\ last'.out = "ok"
           /\ last'.trace = <<>>
           /\ Marker(db') = Marker(db)]_vars

C4_Witness ==
  /\ DistinctVersions
  /\ last.op = "downgrade" /\ last.out = "ok"
  /\ last.target \in VersionsIn(dir)
  /\ Len(last.trace) >= 2
  /\ Recorded(last.pre) = MaxVersion
  /\ Marker(db) = At(last.target)

UnknownTarget(t) == IsStr(t) /\ t # Str0 /\ t \notin VersionsIn(dir)

\* C6: an upgrade or downgrade whose target matches no unit of the set raises
\* an error and leaves the version marker as it was before the call, absent
\* or present.
C6_UnknownTargetKeepsMarker ==
  (last.op \in {"upgrade", "downgrade"} /\ UnknownTarget(last.target))
  => /\ last.out # "ok"
     /\ Marker(db) = last.pre

\* C7: an upgrade or downgrade that ends with the error of an unknown target
\* has invoked no migration action.
C7_UnknownTargetBeforeActions ==
  (last.op \in {"upgrade", "downgrade"} /\ last.out = "Error: no migration")
  => last.trace = <<>>

C7_Witness ==
  /\ last.op = "upgrade" /\ last.out = "Error: no migration"
  /\ last.target = UnknownStr
  /\ last.pre.tbl
  /\ \E u \in DirUnits : VersionOf(u) > Recorded(last.pre)
  /\ last.trace = <<>>

\* C8: a downgrade of a database without version marker raises an error,
\* invokes no migration action and leaves the marker absent.
C8_DowngradeUnversioned ==
  (last.op = "downgrade" /\ ~last.pre.tbl)
  => /\ last.out \in Errors
     /\ last.trace = <<>>
     /\ ~db.tbl

C8_Witness ==
  /\ last.op = "downgrade" /\ ~last.pre.tbl
  /\ last.target \in {Str0} \cup VersionsIn(dir)
  /\ dir # <<>>
  /\ last.out = "Error: not version controlled"
  /\ ~db.tbl

\* C9: when the action of a unit fails during a walk, the fault reaches the
\* caller, the failing invocation is the last one of the walk, the steps
\* before it stay applied (upgrade) or reverted (downgrade), and the recorded
\* version is the one the last completed step wrote, or the starting version
\* when no step completed.
C9_FaultHaltsWalk ==
  (last.failed # 0)
  => LET k == Len(last.trace)
     IN /\ last.op \in {"upgrade", "downgrade"}
        /\ last.out = "ActionFault"
        /\ k >= 1 /\ last.trace[k] = last.failed
        /\ \A i \in 1..(k - 1) : last.trace[i] # last.failed
        /\ \A i \in 1..(k - 1) :
             IF last.op = "upgrade" THEN last.trace[i] \in db.applied
             ELSE last.trace[i] \notin db.applied
        /\ Marker(db) =
             At(IF k = 1 THEN StartVersion
                ELSE IF last.op = "upgrade" THEN VersionOf(last.trace[k - 1])
                ELSE VersionOf(last.trace[k]))
        /\ k > 1 => Recorded(db) = last.writes[Len(last.writes)]

C9_Witness ==
  /\ last.failed # 0 /\ last.out = "ActionFault"
  /\ Len(last.trace) >= 2
  /\ \E u \in DirUnits : u \notin InvokedIn(last.trace)
  /\ last.op = "upgrade"
  /\ Recorded(db) = VersionOf(last.trace[Len(last.trace) - 1])

\* C10: whenever a migration action or a write of the version marker fails,
\* the transaction of that step is rolled back on the connection before the
\* fault leaves the engine: no uncommitted effect of the failing step stays
\* pending on the connection.
C10_FaultRollsBack ==
  (last.out \in {"ActionFault", "SqlError"}) => ~last.openTx

\* the content of the database before the last call
PreDb == [tbl |-> last.pre.tbl, rows |-> last.pre.rows,
          applied |-> last.preApplied]

\* the content the last call would have left had no step of it failed
Uninterrupted ==
  IF last.op = "upgrade"
    THEN upgrade(PreDb, Directory(dir), last.target, NoFault, 0).com
    ELSE downgrade(PreDb, Directory(dir), last.target, NoFault, 0).com

\* the last call failed at a step of its walk: in the action of a unit, or
\* in the version write that follows an action
FailedAtStep ==
  /\ last.op \in {"upgrade", "downgrade"}
  /\ \/ last.out = "ActionFault"
     \/ last.out = "SqlError" /\ last.trace # <<>>

\* the units whose action the last call ran to completion
Completed == InvokedIn(last.trace) \ {last.failed}

\* C11: when an upgrade or downgrade failed at a step (the action of a unit
\* or the version write), the same operation called again with the same set
\* and target, every step now succeeding, leaves the recorded version and the
\* applied units an uninterrupted call would have left, and invokes no action
\* that had completed in the failed call.
C11_Resumable ==
  [][(/\ FailedAtStep
      /\ last'.op = last.op /\ last'.target = last.target
      /\ last'.out = "ok")
     => /\ db' = Uninterrupted
        /\ InvokedIn(last'.trace) \cap Completed = {}]_vars

\* a source that is no migration: an identifier without a timestamp in front
\* (with or without the letter v), code that does not load, or a module
\* without upgrade or without downgrade
InvalidSource(file) ==
  \/ file.filename \in {ShortName, PlainName}
  \/ ~file.loads
  \/ file.has # Methods

\* C12: when one source of the collection is invalid (bad identifier, code
\* that does not load, a missing upgrade or downgrade), load_migrations
\* raises and returns no list: never the list without the invalid unit.
C12_LoadAllOrNothing ==
  (/\ last.op = "load_migrations" /\ last.arg.isdir
   /\ \E i \in DOMAIN last.arg.files : InvalidSource(last.arg.files[i]))
  => /\ last.out \in {"InvalidNameError", "InvalidMigrationError"}
     /\ ~last.returned
     /\ last.migrations = <<>>

C12_Witness ==
  /\ last.op = "load_migrations" /\ last.arg.isdir
  /\ Len(last.arg.files) >= 3
  /\ InvalidSource(last.arg.files[Len(last.arg.files)])
  /\ last.arg.files[Len(last.arg.files)].has = {"upgrade"}
  /\ \A i \in 1..(Len(last.arg.files) - 1) : ~InvalidSource(last.arg.files[i])
  /\ last.out = "InvalidMigrationError"
  /\ ~last.returned

\* C13: an upgrade or downgrade whose migration set does not load invokes no
\* migration action, neither creates nor writes the version marker, and
\* leaves the database as it was before the call.
C13_LoadFailureTouchesNothing ==
  (last.op \in {"upgrade", "downgrade"} /\ last.out \in LoadErrors)
  => /\ last.trace = <<>>
     /\ last.writes = <<>>
     /\ Marker(db) = last.pre
     /\ db.applied = last.preApplied

\* the marker table is absent, or present with exactly one row
OneRowOrAbsent(content) ==
  IF content.tbl THEN Len(content.rows) = 1 ELSE content.rows = <<>>

\* C14: after every call of upgrade, downgrade or get_version, failing calls
\* included, the marker table is absent or holds exactly one row; a table
\* that is present stays present and keeps its single row.
C14_MarkerLifecycle ==
  [][/\ OneRowOrAbsent(db')
     /\ db.tbl => db'.tbl
     /\ (db.tbl /\ Len(db.rows) = 1) => Len(db'.rows) = 1]_vars

\* the units the recorded version stands for
UpTo(v) == {u \in DirUnits : VersionOf(u) <= v}

\* C15: for a set of pairwise distinct versions and a database that starts
\* without marker, between calls of upgrade and downgrade that ran all their
\* steps the recorded version is "0" with no unit applied, or the version of
\* a unit of the set, and the applied units are exactly those with a version
\* <= the recorded version.
C15_AppliedMatchesVersion ==
  (DistinctVersions /\ db.tbl)
  => /\ Len(db.rows) = 1
     /\ Recorded(db) \in {Str0} \cup VersionsIn(dir)
     /\ db.applied = UpTo(Recorded(db))

C15_Witness ==
  /\ DistinctVersions
  /\ last.op = "downgrade" /\ last.out = "ok" /\ last.trace # <<>>
  /\ db.tbl /\ Recorded(db) \in VersionsIn(dir)
  /\ db.applied = UpTo(Recorded(db))
  /\ db.applied # {} /\ db.applied # DirUnits

\* C16: get_version of a database without marker returns None and leaves the
\* marker absent; of a database with marker it returns the stored version;
\* in both cases the database is as before the call.
C16_GetVersionReadsOnly ==
  (last.op = "get_version")
  => /\ last.out = "ok"
     /\ last.ret = (IF last.pre.tbl THEN Recorded(last.pre) ELSE NoneVal)
     /\ Marker(db) = last.pre
     /\ db.applied = last.preApplied
     /\ last.writes = <<>>

C16_Witness ==
  /\ last.op = "get_version" /\ ~last.pre.tbl
  /\ last.ret = NoneVal
  /\ ~db.tbl /\ db.rows = <<>>

\* the effects of the statements of the body of the last with-block that
\* were not there before it
BodyWrites == {last.body[i] : i \in DOMAIN last.body} \ last.pre

\* C17: when the body of "with transaction(conn)" ends normally, its writes
\* are committed and a later rollback does not undo them; when it raises,
\* the exception reaches the caller and none of the writes of the body is
\* visible afterwards.
C17_TransactionCommitsOrRollsBack ==
  (last.op = "transaction")
  => IF last.raises
       THEN last.out = "Exception" /\ BodyWrites \cap last.visible = {}
       ELSE /\ last.out = "ok"
            /\ BodyWrites \subseteq last.visible
            /\ BodyWrites \subseteq last.kept

\* a filename of one of the two conventions: a timestamp, or the letter v and
\* a timestamp, in front of the name
EitherConvention(filename) ==
  \/ filename = VName
  \/ \E u \in Units : filename = File(u).filename

\* C18: the identifier parser never raises; for an identifier whose final
\* segment is 14 digits, with or without one "v" or "V" in front, it returns
\* those digits and what follows them without its leading underscores; for
\* every other str it returns (None, None).  A migration made from a file
\* named in either convention has that version and that name.
C18_ParserTotal ==
  /\ (last.op = "_parse_migration_name")
     => /\ last.out = "ok"
        /\ IF last.marker \in {<<>>, <<"v">>, <<"V">>} /\ last.run.stamp # <<>>
             THEN /\ last.version = last.run.stamp
                  /\ last.name = (IF last.run.extra # <<>>
                                    THEN last.run.extra \o last.tail.text
                                    ELSE last.tail.stripped)
             ELSE last.version = NullStr /\ last.name = NullStr
  /\ (/\ last.op = "Migration" /\ EitherConvention(last.arg.filename)
      /\ last.arg.loads /\ last.arg.has = Methods)
     => LET filename == last.arg.filename
            v == IF filename[1] = "v" THEN 1 ELSE 0
        IN /\ last.made
           /\ last.version = SubSeq(filename, v + 1, v + UTC_LENGTH)
           /\ last.name = <<filename[v + UTC_LENGTH + 2]>>

\* the declared name of the module of the last call has a timestamp, with or
\* without one "v" or "V", in front of its last dotted segment
NameHasVersion ==
  last.marker \in {<<>>, <<"v">>, <<"V">>} /\ last.run.stamp # <<>>

\* C19: Migration.from_module takes the version from the last dotted segment
\* of the declared name of the module; when that has none, from the VERSION
\* attribute of the module; when there is neither, it raises
\* InvalidMigrationError and makes no unit.
C19_FromModuleVersionOrder ==
  (last.op = "from_module")
  => /\ IF NameHasVersion
          THEN last.made => last.version = last.run.stamp
        ELSE IF last.arg.VERSION # NullStr
          THEN last.made => last.version = last.arg.VERSION
        ELSE last.out = "InvalidMigrationError" /\ ~last.made
     /\ (last.arg.has = Methods
         /\ (NameHasVersion \/ last.arg.VERSION # NullStr))
        => last.made

C19_Witness ==
  /\ last.op = "from_module" /\ last.made
  /\ NameHasVersion /\ last.arg.VERSION # NullStr
  /\ \E i \in DOMAIN last.arg.name : last.arg.name[i] = "."
  /\ last.version = last.run.stamp
  /\ last.version # last.arg.VERSION

SharedBy(v) == {u \in DirUnits : VersionOf(u) = v}

\* C21: when two or more files of the directory carry the requested target
\* version, upgrade and downgrade raise caribou.Error and invoke no
\* migration action.
C21_AmbiguousTargetRefused ==
  (/\ last.op \in {"upgrade", "downgrade"}
   /\ Cardinality(SharedBy(last.target)) >= 2)
  => /\ last.out \in Errors
     /\ last.trace = <<>>

\* C22: on a version-controlled database a downgrade to "0" or to None whose
\* actions all succeed returns normally, whatever the directory holds,
\* invokes the downgrade action of every unit with version <= the recorded
\* version, once each in descending order, and leaves the recorded version
\* "0".
C22_DowngradeRevertsAll ==
  (/\ last.op = "downgrade" /\ last.target \in {Str0, NoneVal}
   /\ last.pre.tbl /\ last.pre.rows # <<>> /\ last.failed = 0)
  => /\ last.out = "ok"
     /\ InvokedIn(last.trace)
          = {u \in DirUnits : VersionOf(u) <= Recorded(last.pre)}
     /\ OnceEach(last.trace)
     /\ Descending(last.trace)
     /\ Marker(db) = At(Str0)

\* C23: in the walk of an upgrade a unit is compared with the version the
\* step before it recorded: a unit whose version equals that of a unit
\* applied earlier in the same walk is skipped, so no two units invoked by
\* one upgrade carry the same version.
C23_WalkUsesUpdatedVersion ==
  (last.op = "upgrade")
  => \A i, j \in DOMAIN last.trace :
       i < j => VersionOf(last.trace[i]) # VersionOf(last.trace[j])

\* the version of the unit that follows u in the descending list, as it is
\* stored: the greatest version of the directory below that of u, or "0"
LowerVersions(u) == {v \in VersionsIn(dir) : v < VersionOf(u)}

NextLower(u) ==
  IF LowerVersions(u) = {} THEN Str0
  ELSE CHOOSE v \in LowerVersions(u) : \A w \in LowerVersions(u) : w <= v

\* the downgrade actions of the last call that returned
Reverted == Len(last.trace) - (IF last.failed # 0 THEN 1 ELSE 0)

\* C24: in a downgrade, after each downgrade action that succeeded the
\* recorded version is set to the version of the next unit of the descending
\* list, or to 0 after the last unit; the write is committed before the next
\* action runs, so it is what the database records when that action fails.
C24_DowngradeWritesNext ==
  (DistinctVersions /\ last.op = "downgrade")
  => /\ Len(last.writes) = Reverted
     /\ \A k \in 1..Reverted : last.writes[k] = NextLower(last.trace[k])
     /\ Reverted >= 1 => Marker(db) = At(last.writes[Reverted])

C24_Witness ==
  /\ DistinctVersions /\ last.op = "downgrade"
  /\ Len(last.trace) = 3 /\ last.failed = last.trace[3]
  /\ last.writes = <<VersionOf(last.trace[2]), VersionOf(last.trace[3])>>
  /\ Marker(db) = At(VersionOf(last.trace[3]))

\* the call ended in the version write that follows its last action
WriteFailedAfterAction ==
  /\ last.op \in {"upgrade", "downgrade"}
  /\ last.out = "SqlError" /\ last.failed = 0
  /\ last.trace # <<>>

Updates ==
  IF last.op = "upgrade" /\ ~last.pre.tbl /\ last.writes # <<>>
    THEN Tail(last.writes) ELSE last.writes

\* C26: a version write that succeeds is committed: the last value written
\* by a call is the one row of the marker and what get_version returns next;
\* a version write that fails is rolled back and raises, nothing stays
\* pending on the connection and the marker keeps the value it had before
\* that write.
C26_VersionWriteCommitsOrKeeps ==
  (last.op \in {"upgrade", "downgrade"})
  => /\ Updates # <<>>
        => /\ Marker(db) = At(Updates[Len(Updates)])
           /\ get_version(db).ret = Updates[Len(Updates)]
     /\ WriteFailedAfterAction
        => /\ last.rb >= 1 /\ ~last.openTx
           /\ Len(Updates) = Len(last.trace) - 1
           /\ Updates = <<>> => Marker(db) = At(StartVersion)

C26_Witness ==
  /\ WriteFailedAfterAction /\ last.op = "downgrade"
  /\ Len(last.trace) = 2
  /\ Updates = <<VersionOf(last.trace[2])>>
  /\ Marker(db) = At(VersionOf(last.trace[2]))
  /\ get_version(db).ret = VersionOf(last.trace[2])

\* C27: initialize_version_control creates the marker table and inserts the
\* row "0" as one transaction, so a call leaves the table with its row or no
\* table at all; the table appears only in an upgrade on a database without
\* it, and once it is there no call inserts a row again.
C27_InitializeOnceAtomically ==
  [][/\ (~db.tbl /\ last'.op = "upgrade")
        => \/ ~db'.tbl /\ db'.rows = <<>>
           \/ db'.tbl /\ Len(db'.rows) = 1
     /\ (~db.tbl /\ db'.tbl) => last'.op = "upgrade"
     /\ db.tbl => db'.tbl /\ Len(db'.rows) = Len(db.rows)]_vars

\* the place of unit u in a list that holds it once
PlaceIn(list, u) == CHOOSE i \in DOMAIN list : list[i] = u

\* C28: sort by version, ascending or descending, returns the units of its
\* input, each once, in version order, and units with equal versions stand
\* in the order they had in the input.
C28_SortStable ==
  (last.op = "sort")
  => /\ Len(last.sorted) = Len(last.arg)
     /\ InvokedIn(last.sorted) = InvokedIn(last.arg)
     /\ \A i, j \in DOMAIN last.sorted :
          i < j
          => /\ IF last.reverse
                  THEN VersionOf(last.sorted[i]) >= VersionOf(last.sorted[j])
                  ELSE VersionOf(last.sorted[i]) <= VersionOf(last.sorted[j])
             /\ VersionOf(last.sorted[i]) = VersionOf(last.sorted[j])
                => PlaceIn(last.arg, last.sorted[i])
                     < PlaceIn(last.arg, last.sorted[j])

C28_Witness ==
  /\ last.op = "sort" /\ last.reverse
  /\ last.arg = <<2, 1, Twin, NumUnits + 2>>
  /\ last.sorted = <<2, NumUnits + 2, 1, Twin>>

\* C29: Database.upgrade and Database.downgrade close no connection, and
\* upgrade, downgrade and get_version close every connection they opened
\* before they return or raise.
C29_ConnectionsClosed ==
  /\ \A version \in Targets :
       /\ Database_upgrade(Connect(db), dir, version, NoFault, 0).closed = 0
       /\ Database_downgrade(Connect(db), dir, version, NoFault, 0).closed = 0
  /\ last.op \in {"upgrade", "downgrade", "get_version"}
     => last.closed = last.opened

\* C30: whenever upgrade is called with a target version and returns
\* normally, get_version returns that target afterwards (the assert of
\* upgrade_db_command).
C30_UpgradeReachesTarget ==
  (last.op = "upgrade" /\ Truthy(last.target) /\ last.out = "ok")
  => get_version(db).ret = last.target

\* the versions the database recorded in the course of the last call: the
\* one it started from, when the marker had its row, and every value the
\* call wrote
History ==
  (IF last.pre.tbl /\ last.pre.rows # <<>> THEN <<Recorded(last.pre)>>
   ELSE <<>>) \o last.writes

\* C31: in a call of upgrade, failing or not, no value written is below the
\* value recorded before it, and the call ends with a recorded version that
\* is not below the one it started from; in a call of downgrade no value
\* written is above the value recorded before it, and the recorded version
\* does not end above the one it started from.
C31_DirectionMonotone ==
  /\ (last.op = "upgrade")
     => /\ \A k \in 1..(Len(History) - 1) : History[k] <= History[k + 1]
        /\ (History # <<>> /\ db.rows # <<>>) => History[1] <= Recorded(db)
  /\ (last.op = "downgrade")
     => /\ \A k \in 1..(Len(History) - 1) : History[k] >= History[k + 1]
        /\ (History # <<>> /\ db.rows # <<>>) => History[1] >= Recorded(db)

C31_Witness ==
  /\ last.op = "downgrade" /\ last.failed # 0
  /\ Len(History) = 3
  /\ History[1] > History[2] /\ History[2] > History[3]
  /\ Recorded(db) = History[3]

\* C32: while files are added to the directory between calls, a downgrade
\* invokes the downgrade action only of units whose upgrade action ran and
\* was not reverted since, and after every call of upgrade or downgrade that
\* returned normally each unit of the directory with version <= the recorded
\* version has had its upgrade action run.
C32_AppliedBeforeReverted ==
  [][/\ (last'.op = "downgrade" /\ db' # db)
        => InvokedIn(last'.trace) \subseteq db.applied
     /\ (/\ last' # last /\ last'.op \in {"upgrade", "downgrade"}
         /\ last'.out = "ok" /\ db'.tbl /\ db'.rows # <<>>)
        => \A u \in UnitsOf(dir') :
             VersionOf(u) <= Recorded(db') => u \in db'.applied]_vars

====
